---- MODULE Spec2Model ----
(***************************************************************************)
(* A model of nvmg (Node Version Manager in Go), src/nvmg.go.              *)
(*                                                                         *)
(* Go strings whose characters the program inspects (command-line          *)
(* arguments, version specifiers) are sequences of one-character strings;  *)
(* strings the program only assembles and prints (platform tokens, file    *)
(* names, messages) are TLA+ strings.  Str converts the first into the     *)
(* second.                                                                 *)
(***************************************************************************)
EXTENDS Integers, Sequences, FiniteSets, TLC

VARIABLES
    GOOS,        \* runtime.GOOS of the build
    GOARCH,      \* runtime.GOARCH of the build
    args,        \* NVMG.args
    mainFlags,   \* NVMG.mainFlags: Nil, or the parsed FlagSet (its remaining arguments)
    versionFlag, \* *NVMG.versionFlag
    helpFlag,    \* *NVMG.helpFlag
    pc,          \* "running", "exited" (os.Exit) or "panicked" (runtime panic)
    exitCode,    \* the code given to os.Exit (0 while running)
    call,        \* the method called last ("none" before any call)
    input,       \* the argument of that call
    ret,         \* what that call returned: [status, ver]
    installRet,  \* the statuses the RunInstall calls made inside that call returned
    specifier,   \* the strings that call handed to expandVersionNumber
    parsed,      \* the strings that call handed to semver.Parse
    trace,       \* the pipeline stages that call ran, in order
    ioout,       \* the lines that call wrote to NVMG.ioout and os.Stdout
    ioerr,       \* the lines that call wrote to NVMG.ioerr
    fs           \* the directories that exist below the managed root and the temp dir

vars == <<GOOS, GOARCH, args, mainFlags, versionFlag, helpFlag, pc, exitCode, call,
          input, ret, installRet, specifier, parsed, trace, ioout, ioerr, fs>>

----------------------------------------------------------------------------
(* ErrorStatus, src/nvmg.go:42-54 (iota).                                  *)

ExitStatusOK == 0
ExitStatusError == 1
ExitStatusNotInitialized == 2
ExitStatusVersionNotFound == 3

\* A nil *flag.FlagSet.
Nil == [parsed |-> FALSE, args |-> <<>>]

\* The outcome of a slice expression whose bounds check fails.
Panic == <<"panic">>

----------------------------------------------------------------------------
(* Strings.                                                                *)

RECURSIVE Str(_)
Str(s) == IF s = <<>> THEN "" ELSE Head(s) \o Str(Tail(s))

\* strings.HasPrefix(s, "v")
HasPrefixV(s) == Len(s) >= 1 /\ s[1] = "v"

\* The Go slice expression s[i:], which panics when i > len(s).
SliceFrom(s, i) == IF i > Len(s) THEN Panic ELSE SubSeq(s, i + 1, Len(s))

\* An index into the tail of a string, as an index into the string.
NextIndex(i) == IF i = 0 THEN 0 ELSE i + 1

\* strings.IndexRune(s, c), 1-based, 0 when c is not in s.
RECURSIVE IndexRune(_, _)
IndexRune(s, c) ==
    IF s = <<>> THEN 0
    ELSE IF Head(s) = c THEN 1
    ELSE NextIndex(IndexRune(Tail(s), c))

\* s cut at position i: what is before it and after it (all of s when i = 0).
CutAt(s, i) ==
    IF i = 0 THEN [found |-> FALSE, before |-> s, after |-> <<>>]
    ELSE [found |-> TRUE, before |-> SubSeq(s, 1, i - 1),
          after |-> SubSeq(s, i + 1, Len(s))]

\* s cut at the first c.
Cut(s, c) == CutAt(s, IndexRune(s, c))

\* strings.Split(s, ".")
RECURSIVE Split(_)
Split(s) ==
    IF IndexRune(s, ".") = 0 THEN <<s>>
    ELSE <<Cut(s, ".").before>> \o Split(Cut(s, ".").after)

\* Strings joined with ".".
RECURSIVE JoinDots(_)
JoinDots(ss) ==
    IF ss = <<>> THEN <<>>
    ELSE IF Len(ss) = 1 THEN ss[1]
    ELSE ss[1] \o <<".">> \o JoinDots(Tail(ss))

\* strings.SplitN(s, ".", 3): the third part keeps the separators left in it.
SplitN3(s) ==
    IF Len(Split(s)) <= 3 THEN Split(s)
    ELSE <<Split(s)[1], Split(s)[2], JoinDots(SubSeq(Split(s), 3, Len(Split(s))))>>

----------------------------------------------------------------------------
(* github.com/blang/semver, as used at src/nvmg.go:181 and :186.           *)

numbers == {"0", "1", "2", "3", "4", "5", "6", "7", "8", "9"}
alphas == {"a", "b", "c", "d", "e", "f", "g", "h", "i", "j", "k", "l", "m",
           "n", "o", "p", "q", "r", "s", "t", "u", "v", "w", "x", "y", "z",
           "A", "B", "C", "D", "E", "F", "G", "H", "I", "J", "K", "L", "M",
           "N", "O", "P", "Q", "R", "S", "T", "U", "V", "W", "X", "Y", "Z",
           "-"}
alphanum == alphas \cup numbers

containsOnly(s, set) == \A i \in 1..Len(s) : s[i] \in set

hasLeadingZeroes(s) == Len(s) > 1 /\ s[1] = "0"

DigitValue(c) ==
    CASE c = "0" -> 0 [] c = "1" -> 1 [] c = "2" -> 2 [] c = "3" -> 3
      [] c = "4" -> 4 [] c = "5" -> 5 [] c = "6" -> 6 [] c = "7" -> 7
      [] c = "8" -> 8 [] c = "9" -> 9

DigitChar(d) == <<"0", "1", "2", "3", "4", "5", "6", "7", "8", "9">>[d + 1]

\* strconv.ParseUint(s, 10, 64) of a string of digits: its value.  The empty
\* string is a syntax error, which the callers test with ParseUintFails.
\* (No digit string of the model comes near the 20 digits of 2^64.)
RECURSIVE ParseUint(_)
ParseUint(s) ==
    IF s = <<>> THEN 0
    ELSE 10 * ParseUint(SubSeq(s, 1, Len(s) - 1)) + DigitValue(s[Len(s)])

ParseUintFails(s) == s = <<>> \/ ~containsOnly(s, numbers)

\* strconv.FormatUint(n, 10)
RECURSIVE FormatUint(_)
FormatUint(n) ==
    IF n < 10 THEN <<DigitChar(n)>>
    ELSE FormatUint(n \div 10) \o <<DigitChar(n % 10)>>

\* semver.NewPRVersion(s): [err, isNum, num, str]
NewPRVersion(s) ==
    IF s = <<>>
    THEN [err |-> "Prerelease is empty", isNum |-> FALSE, num |-> 0, str |-> <<>>]
    ELSE IF containsOnly(s, numbers)
    THEN IF hasLeadingZeroes(s)
         THEN [err |-> "Numeric PreRelease version must not contain leading zeroes",
               isNum |-> TRUE, num |-> 0, str |-> <<>>]
         ELSE [err |-> "", isNum |-> TRUE, num |-> ParseUint(s), str |-> <<>>]
    ELSE IF containsOnly(s, alphanum)
    THEN [err |-> "", isNum |-> FALSE, num |-> 0, str |-> s]
    ELSE [err |-> "Invalid character(s) found in prerelease",
          isNum |-> FALSE, num |-> 0, str |-> <<>>]

\* NewPRVersion of each of the strings ss.
PRVersions(ss) == [i \in 1..Len(ss) |-> NewPRVersion(ss[i])]

\* PRVersion.String()
PRVersionString(p) == IF p.isNum THEN FormatUint(p.num) ELSE p.str

NoVersion == [major |-> 0, minor |-> 0, patch |-> 0, pre |-> <<>>, build |-> <<>>]

SemverError(msg) == [err |-> msg, v |-> NoVersion]

\* The first error among the results of NewPRVersion, "" when there is none.
RECURSIVE FirstError(_)
FirstError(prs) ==
    IF prs = <<>> THEN ""
    ELSE IF Head(prs).err # "" THEN Head(prs).err
    ELSE FirstError(Tail(prs))

\* The error of the build meta data loop of semver.Parse, "" when there is none.
RECURSIVE BuildError(_)
BuildError(build) ==
    IF build = <<>> THEN ""
    ELSE IF Head(build) = <<>> THEN "Build meta data is empty"
    ELSE IF ~containsOnly(Head(build), alphanum)
    THEN "Invalid character(s) found in build meta data"
    ELSE BuildError(Tail(build))

\* The check semver.Parse makes of each of major, minor and patch.
NumberError(s, what) ==
    IF ~containsOnly(s, numbers) THEN "Invalid character(s) found in " \o what
    ELSE IF hasLeadingZeroes(s) THEN "Leading zeroes in " \o what
    ELSE IF ParseUintFails(s) THEN "strconv.ParseUint: invalid syntax"
    ELSE ""

\* semver.Parse once major, minor, the patch string, the pre-release versions
\* and the build meta data are split off.
semverParseChecked(major, minor, patchStr, prs, build) ==
    IF NumberError(major, "major number") # "" THEN SemverError(NumberError(major, "major number"))
    ELSE IF NumberError(minor, "minor number") # "" THEN SemverError(NumberError(minor, "minor number"))
    ELSE IF NumberError(patchStr, "patch number") # ""
    THEN SemverError(NumberError(patchStr, "patch number"))
    ELSE IF FirstError(prs) # "" THEN SemverError(FirstError(prs))
    ELSE IF BuildError(build) # "" THEN SemverError(BuildError(build))
    ELSE [err |-> "",
          v |-> [major |-> ParseUint(major), minor |-> ParseUint(minor),
                 patch |-> ParseUint(patchStr),
                 pre |-> [i \in 1..Len(prs) |-> [isNum |-> prs[i].isNum,
                                                 num |-> prs[i].num,
                                                 str |-> prs[i].str]],
                 build |-> build]]

\* semver.Parse from the patch string on: b is it cut at the first "+", p what
\* is before the "+" cut at the first "-".
semverParsePatch(major, minor, b, p) ==
    semverParseChecked(major, minor, p.before,
                       IF p.found THEN PRVersions(Split(p.after)) ELSE <<>>,
                       IF b.found THEN Split(b.after) ELSE <<>>)

\* semver.Parse of the parts of strings.SplitN(s, ".", 3).
semverParseParts(parts) ==
    IF Len(parts) # 3 THEN SemverError("No Major.Minor.Patch elements found")
    ELSE semverParsePatch(parts[1], parts[2], Cut(parts[3], "+"),
                          Cut(Cut(parts[3], "+").before, "-"))

\* semver.Parse(s): [err, v], err = "" on success.
semverParse(s) ==
    IF Len(s) = 0 THEN SemverError("Version string empty")
    ELSE semverParseParts(SplitN3(s))

\* Version.String() without the pre-release versions and the build meta data.
semverStringCoreOnly(ver) ==
    FormatUint(ver.major) \o <<".">> \o FormatUint(ver.minor) \o <<".">>
    \o FormatUint(ver.patch)

\* Version.String()
semverString(ver) ==
    FormatUint(ver.major) \o <<".">> \o FormatUint(ver.minor) \o <<".">>
    \o FormatUint(ver.patch)
    \o (IF Len(ver.pre) > 0
        THEN <<"-">> \o JoinDots([i \in 1..Len(ver.pre) |-> PRVersionString(ver.pre[i])])
        ELSE <<>>)
    \o (IF Len(ver.build) > 0 THEN <<"+">> \o JoinDots(ver.build) ELSE <<>>)

----------------------------------------------------------------------------
(* The install pipeline, src/nvmg.go:173-241.                              *)

vPrefix == <<"v">>
stable == <<"s", "t", "a", "b", "l", "e">>
lts == <<"l", "t", "s">>
system == <<"s", "y", "s", "t", "e", "m">>

\* What a method did: how it ended ("return", "exit" by os.Exit, "panic"), what
\* it returned, and what it handed on and wrote on the way.
Effect(kind, status, ver) ==
    [kind |-> kind, status |-> status, ver |-> ver, codes |-> {0},
     installRet |-> <<>>, specifier |-> <<>>, parsed |-> <<>>, trace |-> <<>>,
     out |-> <<>>, err |-> <<>>]

Return(status) == Effect("return", status, <<>>)

ExitWith(codes) == [Effect("exit", ExitStatusOK, <<>>) EXCEPT !.codes = codes]

Panicked == Effect("panic", ExitStatusOK, <<>>)

\* stripPrefix without the strings.HasPrefix guard.
stripPrefixUnguarded(ver) == SliceFrom(ver, 1)

\* stripPrefix stripping every leading "v".
RECURSIVE stripPrefixAll(_)
stripPrefixAll(ver) == IF HasPrefixV(ver) THEN stripPrefixAll(Tail(ver)) ELSE ver

\* src/nvmg.go:175-177
stripPrefix(ver) == IF HasPrefixV(ver) THEN SliceFrom(ver, 1) ELSE ver

\* expandVersionNumber from semver.Parse on, r its result.
\* (The body of `if ver == "stable"` is empty: every string goes to semver.Parse.)
expandParsed(ver, stripped, r) ==
    IF r.err # ""
    THEN [Effect("return", ExitStatusVersionNotFound, <<>>) EXCEPT
             !.specifier = <<ver>>, !.parsed = <<stripped>>, !.err = <<r.err>>]
    ELSE [Effect("return", ExitStatusOK, vPrefix \o semverString(r.v)) EXCEPT
             !.specifier = <<ver>>, !.parsed = <<stripped>>]

\* expandVersionNumber once the prefix is stripped.
expandStripped(ver, stripped) ==
    IF stripped = Panic THEN [Panicked EXCEPT !.specifier = <<ver>>]
    ELSE expandParsed(ver, stripped, semverParse(stripped))

\* func (n *NVMG) expandVersionNumber(ver string) (string, ErrorStatus)
expandVersionNumber(ver) == expandStripped(ver, stripPrefix(ver))

\* platformOf without the case "solaris".
platformOfSolarisAsLinux(goos) ==
    CASE goos = "darwin" -> [platform |-> "darwin", ext |-> "tar.gz"]
      [] goos = "windows" -> [platform |-> "win", ext |-> "zip"]
      [] OTHER -> [platform |-> "linux", ext |-> "tar.gz"]

\* The switch on runtime.GOOS, src/nvmg.go:202-218: [platform, ext]
platformOf(goos) ==
    CASE goos = "linux" -> [platform |-> "linux", ext |-> "tar.gz"]
      [] goos = "darwin" -> [platform |-> "darwin", ext |-> "tar.gz"]
      [] goos = "windows" -> [platform |-> "win", ext |-> "zip"]
      [] goos = "solaris" -> [platform |-> "sunos", ext |-> "tar.gz"]
      [] OTHER -> [platform |-> "linux", ext |-> "tar.gz"]

\* archOf without the cases "386" and "amd64".
archOf386AsX64(goarch) ==
    CASE goarch = "arm64" -> "arm64"
      [] goarch = "ppc64" -> "ppc64"
      [] goarch = "ppc64le" -> "ppc64le"
      [] goarch = "s390x" -> "s390x"
      [] OTHER -> "x64"

\* The switch on runtime.GOARCH, src/nvmg.go:223-238
archOf(goarch) ==
    CASE goarch = "386" -> "x86"
      [] goarch = "amd64" -> "x64"
      [] goarch = "arm64" -> "arm64"
      [] goarch = "ppc64" -> "ppc64"
      [] goarch = "ppc64le" -> "ppc64le"
      [] goarch = "s390x" -> "s390x"
      [] OTHER -> "x64"

\* func nodeBinaryArchiveName(ver string) string, with runtime.GOOS and
\* runtime.GOARCH as parameters.
nodeBinaryArchiveName(ver, goos, goarch) ==
    "node-" \o Str(ver) \o "-" \o platformOf(goos).platform \o "-" \o archOf(goarch)
    \o "." \o platformOf(goos).ext

\* func (n *NVMG) Install(ver string) ErrorStatus
Install(ver, goos, goarch) ==
    [Return(ExitStatusOK) EXCEPT
        !.trace = <<"Naming">>,
        !.out = <<nodeBinaryArchiveName(ver, goos, goarch)>>]

----------------------------------------------------------------------------
(* Package flag, as used at src/nvmg.go:76-88 and :159-166.                *)

\* strconv.ParseBool: <<value, ok>>
ParseBool(s) ==
    IF Str(s) \in {"1", "t", "T", "TRUE", "true", "True"} THEN <<TRUE, TRUE>>
    ELSE IF Str(s) \in {"0", "f", "F", "FALSE", "false", "False"} THEN <<FALSE, TRUE>>
    ELSE <<FALSE, FALSE>>

\* The flag an argument of the form -name, --name, -name=value names:
\* [name, value, ok], value being that of a boolean flag.
FlagOf(name0, eq) ==
    IF eq = 0 THEN [name |-> Str(name0), value |-> TRUE, ok |-> TRUE]
    ELSE [name |-> Str(SubSeq(name0, 1, eq - 1)),
          value |-> ParseBool(SubSeq(name0, eq + 1, Len(name0)))[1],
          ok |-> ParseBool(SubSeq(name0, eq + 1, Len(name0)))[2]]

\* FlagSet.Parse(arguments) of a FlagSet whose flags, all boolean, are `formal`:
\* [err, vals, args], where err is "" on success, "help" for flag.ErrHelp and
\* "error" for any other error, vals the flags' values and args what is left
\* (FlagSet.Args()).  vals starts as the flags' defaults.
RECURSIVE flagParse(_, _, _)
RECURSIVE flagParseOne(_, _, _, _, _)

\* FlagSet.parseOne once the argument s is known to start a flag: name0 is s
\* without its one or two minus signs, f the flag it names.
flagParseOne(arguments, formal, vals, name0, f) ==
    IF Len(name0) = 0 \/ name0[1] = "-" \/ name0[1] = "="
    THEN [err |-> "error", vals |-> vals, args |-> arguments]
    ELSE IF f.name \notin formal
    THEN [err |-> IF f.name \in {"help", "h"} THEN "help" ELSE "error",
          vals |-> vals, args |-> Tail(arguments)]
    ELSE IF ~f.ok
    THEN [err |-> "error", vals |-> vals, args |-> Tail(arguments)]
    ELSE flagParse(Tail(arguments), formal, [vals EXCEPT ![f.name] = f.value])

\* s without its minus signs: one, or two when the second character is "-".
FlagName0(s) == IF s[2] = "-" THEN SubSeq(s, 3, Len(s)) ELSE SubSeq(s, 2, Len(s))

flagParse(arguments, formal, vals) ==
    IF arguments = <<>> THEN [err |-> "", vals |-> vals, args |-> <<>>]
    ELSE IF Len(arguments[1]) < 2 \/ arguments[1][1] # "-"
    THEN [err |-> "", vals |-> vals, args |-> arguments]
    ELSE IF arguments[1] = <<"-", "-">>
    THEN [err |-> "", vals |-> vals, args |-> Tail(arguments)]
    ELSE flagParseOne(arguments, formal, vals, FlagName0(arguments[1]),
                      FlagOf(FlagName0(arguments[1]),
                             IndexRune(FlagName0(arguments[1]), "=")))

\* What os.Exit gets under flag.ExitOnError: 2, and for flag.ErrHelp 0 or 2
\* with the version of Go.
ExitCodes(err) == IF err = "help" THEN {0, 2} ELSE {2}

\* FlagSet.Arg(0)
Arg0(fl) == IF Len(fl.args) >= 1 THEN fl.args[1] ELSE <<>>

----------------------------------------------------------------------------
(* The command, src/nvmg.go:56-171.                                        *)

Version == "0.1.0"
helpMessage == "Node Version Manager in Go ..."

\* NewNVMG after flags.Parse(args[1:]), fl its result.
newNVMGParsed(fl) ==
    IF fl.err # ""
    THEN [effect |-> [ExitWith(ExitCodes(fl.err)) EXCEPT !.err = <<helpMessage>>],
          flags |-> Nil, vals |-> fl.vals]
    ELSE [effect |-> Return(ExitStatusOK),
          flags |-> [parsed |-> TRUE, args |-> fl.args], vals |-> fl.vals]

\* func NewNVMG(args []string) (*NVMG, ErrorStatus): the Effect, and the
\* mainFlags, versionFlag and helpFlag of the NVMG.
NewNVMG(a) ==
    IF SliceFrom(a, 1) = Panic
    THEN [effect |-> Panicked, flags |-> Nil,
          vals |-> [f \in {"version", "help"} |-> FALSE]]
    ELSE newNVMGParsed(flagParse(SliceFrom(a, 1), {"version", "help"},
                                 [f \in {"version", "help"} |-> FALSE]))

\* RunInstall from `return n.Install(ver)` on: e is the Effect of
\* expandVersionNumber, i that of Install.
runInstallInstalled(e, i) ==
    [i EXCEPT !.trace = <<"Resolving">> \o i.trace,
              !.specifier = e.specifier, !.parsed = e.parsed]

\* RunInstall after expandVersionNumber, e its Effect.
runInstallExpanded(e, goos, goarch) ==
    IF e.kind # "return" \/ e.status # ExitStatusOK
    THEN [e EXCEPT !.trace = <<"Resolving">>, !.ver = <<>>]
    ELSE runInstallInstalled(e, Install(e.ver, goos, goarch))

\* flags.Arg(0) at src/nvmg.go:166
installSpecifier(fl) == Arg0(fl)

\* RunInstall after flags.Parse(n.args[1:]), fl its result.
runInstallParsed(fl, goos, goarch) ==
    IF fl.err # "" THEN ExitWith(ExitCodes(fl.err))
    ELSE IF Len(fl.args) < 1 THEN Return(ExitStatusError)
    ELSE runInstallExpanded(expandVersionNumber(installSpecifier(fl)), goos, goarch)

\* func (n *NVMG) RunInstall() ErrorStatus
RunInstall(nargs, goos, goarch) ==
    IF Len(nargs) < 2 THEN Return(ExitStatusError)
    ELSE runInstallParsed(flagParse(SliceFrom(nargs, 1), {"lts"},
                                    [f \in {"lts"} |-> FALSE]),
                          goos, goarch)

\* `case "install": n.RunInstall()` and the `return ExitStatusOK` that ends Run:
\* e is the Effect of RunInstall.
runInstallDispatched(e) ==
    IF e.kind # "return" THEN e
    ELSE [e EXCEPT !.status = ExitStatusOK, !.ver = <<>>, !.installRet = <<e.status>>]

\* Run from the switch on the subcommand on.
runSubcommand(subcommand, nargs, goos, goarch) ==
    IF subcommand = "install" THEN runInstallDispatched(RunInstall(nargs, goos, goarch))
    ELSE IF subcommand \in {"uninstall", "remove", "delete"}
    THEN [Return(ExitStatusOK) EXCEPT !.out = <<"uninstall">>]
    ELSE Return(ExitStatusOK)

\* func (n *NVMG) Run() ErrorStatus
Run(nargs, flags, version, help, goos, goarch) ==
    IF ~flags.parsed THEN Return(ExitStatusNotInitialized)
    ELSE IF version
    THEN [Return(ExitStatusOK) EXCEPT !.out = <<"nvmg version: " \o Version>>]
    ELSE IF help \/ Arg0(flags) = <<>>
    THEN [ExitWith({0}) EXCEPT !.out = <<helpMessage>>]
    ELSE runSubcommand(Str(Arg0(flags)), nargs, goos, goarch)

----------------------------------------------------------------------------
(* Bounds and inputs.                                                      *)

MaxArgs == 3
MaxNumber == 1
MaxComponents == 3

\* Values of runtime.GOOS and runtime.GOARCH: the ones the switches name and
\* one more of each ("freebsd", "arm").
OSes == {"linux", "darwin", "windows", "solaris", "freebsd"}
Arches == {"386", "amd64", "arm64", "ppc64", "ppc64le", "s390x", "arm"}

nvmgWord == <<"n", "v", "m", "g">>
installWord == <<"i", "n", "s", "t", "a", "l", "l">>
uninstallWord == <<"u", "n", "i", "n", "s", "t", "a", "l", "l">>
ltsOption == <<"-", "-", "l", "t", "s">>
versionOption == <<"-", "-", "v", "e", "r", "s", "i", "o", "n">>
helpOption == <<"-", "-", "h", "e", "l", "p">>
v123 == <<"v", "1", ".", "2", ".", "3">>

\* Command-line arguments, and the command lines NewNVMG is given.
Tokens == {nvmgWord, installWord, uninstallWord, ltsOption, versionOption,
           helpOption, v123}
ArgLists == UNION {[1..n -> Tokens] : n \in 0..MaxArgs}

\* Strings joined with ".", from the components in C, k of them.
RECURSIVE Dotted(_, _)
Dotted(C, k) ==
    IF k = 0 THEN {<<>>}
    ELSE IF k = 1 THEN C
    ELSE {c \o <<".">> \o d : c \in C, d \in Dotted(C, k - 1)}

\* Canonical versions v<major>.<minor>.<patch>.
Numerals == {FormatUint(n) : n \in 0..MaxNumber}
Versions == {vPrefix \o d : d \in Dotted(Numerals, 3)} \cup {v123}

\* Version specifiers: an optional prefix, up to MaxComponents components
\* joined with ".", and an optional pre-release and build suffix; with them the
\* named aliases and a few strings more.
Components == Numerals \cup {<<"1", "0">>, <<>>, <<"0", "1">>, <<"a">>}
Prefixes == {<<>>, <<"v">>, <<"v", "v">>}
Suffixes == {<<>>, <<"-", "a">>, <<"-", "1">>, <<"-", "0", "1">>, <<"-">>,
             <<"+", "b">>, <<"+">>,
             <<"-", "b", "e", "t", "a", "+", "b", "1">>}
Examples == {<<"1", ".", "2", ".", "3">>, v123,
             <<"v", "v", "1", ".", "2", ".", "3">>,
             <<"1", ".", "2", ".", "3", "-", "b", "e", "t", "a", "+", "b", "1">>,
             <<"a", "b", "c">>, <<"1", ".", "2">>}
Aliases == {stable, lts, system}
Bodies == UNION {Dotted(Components, k) : k \in 0..MaxComponents}
Specifiers == {p \o b \o s : p \in Prefixes, b \in Bodies, s \in Suffixes}
               \cup {p \o a : p \in Prefixes, a \in Aliases}
               \cup Examples

----------------------------------------------------------------------------
(* The state machine: a process that constructs an NVMG and calls one of   *)
(* its methods.  Run guards against an NVMG that NewNVMG did not make; the *)
(* other methods are called on one that it made.  No method changes the    *)
(* NVMG, so a second call would start where the first did.                 *)

Init ==
    /\ GOOS \in OSes
    /\ GOARCH \in Arches
    /\ args = <<>>
    /\ mainFlags = Nil
    /\ versionFlag = FALSE
    /\ helpFlag = FALSE
    /\ pc = "running"
    /\ exitCode = 0
    /\ call = "none"
    /\ input = <<>>
    /\ ret = [status |-> ExitStatusOK, ver |-> <<>>]
    /\ installRet = <<>>
    /\ specifier = <<>>
    /\ parsed = <<>>
    /\ trace = <<>>
    /\ ioout = <<>>
    /\ ioerr = <<>>
    /\ fs = {}

\* The call `name(in)` ended as the Effect e says.
Apply(name, in, e) ==
    /\ pc' = CASE e.kind = "return" -> "running"
               [] e.kind = "exit" -> "exited"
               [] e.kind = "panic" -> "panicked"
    /\ exitCode' \in (IF e.kind = "exit" THEN e.codes ELSE {0})
    /\ call' = name
    /\ input' = in
    /\ ret' = [status |-> e.status, ver |-> e.ver]
    /\ installRet' = e.installRet
    /\ specifier' = e.specifier
    /\ parsed' = e.parsed
    /\ trace' = e.trace
    /\ ioout' = e.out
    /\ ioerr' = e.err
    /\ UNCHANGED <<GOOS, GOARCH, fs>>

Constructed == pc = "running" /\ call = "NewNVMG" /\ mainFlags.parsed

NewNVMGCall(A) ==
    /\ pc = "running"
    /\ call = "none"
    /\ \E a \in A :
          LET n == NewNVMG(a)
          IN  /\ Apply("NewNVMG", a, n.effect)
              /\ args' = IF n.effect.kind = "return" THEN a ELSE args
              /\ mainFlags' = n.flags
              /\ versionFlag' = n.vals["version"]
              /\ helpFlag' = n.vals["help"]

RunCall ==
    /\ pc = "running"
    /\ call \in {"none", "NewNVMG"}
    /\ Apply("Run", <<>>, Run(args, mainFlags, versionFlag, helpFlag, GOOS, GOARCH))
    /\ UNCHANGED <<args, mainFlags, versionFlag, helpFlag>>

RunInstallCall ==
    /\ Constructed
    /\ Apply("RunInstall", <<>>, RunInstall(args, GOOS, GOARCH))
    /\ UNCHANGED <<args, mainFlags, versionFlag, helpFlag>>

ExpandVersionNumberCall(S) ==
    /\ Constructed
    /\ \E s \in S : Apply("expandVersionNumber", s, expandVersionNumber(s))
    /\ UNCHANGED <<args, mainFlags, versionFlag, helpFlag>>

InstallCall(V) ==
    /\ Constructed
    /\ \E ver \in V : Apply("Install", ver, Install(ver, GOOS, GOARCH))
    /\ UNCHANGED <<args, mainFlags, versionFlag, helpFlag>>

\* The command line: NewNVMG on every argument list, then Run or RunInstall.
Next ==
    \/ NewNVMGCall(ArgLists)
    \/ RunCall
    \/ RunInstallCall

Spec == Init /\ [][Next]_vars

\* Version resolution alone, on every specifier, on one host.
InitResolve == Init /\ GOOS = "linux" /\ GOARCH = "amd64"

NextResolve ==
    \/ NewNVMGCall({<<nvmgWord>>})
    \/ ExpandVersionNumberCall(Specifiers)

SpecResolve == InitResolve /\ [][NextResolve]_vars

\* Install alone, on every canonical version, on every host.
NextName ==
    \/ NewNVMGCall({<<nvmgWord>>})
    \/ InstallCall(Versions)

SpecName == Init /\ [][NextName]_vars

----------------------------------------------------------------------------
(* Properties.                                                             *)

\* A numeric component: digits, without a leading zero.
IsNumeral(c) == c # <<>> /\ containsOnly(c, numbers) /\ (Len(c) = 1 \/ c[1] # "0")

\* Valid three-component version strings without a leading "v", with and
\* without pre-release and build metadata.
CoreVersions == Dotted(Numerals \cup {<<"1", "0">>}, 3) \cup {<<"1", ".", "2", ".", "3">>}
ValidSuffixes == {<<>>, <<"-", "a">>, <<"-", "1">>, <<"+", "b">>,
                  <<"-", "b", "e", "t", "a", "+", "b", "1">>}
ValidVersions == {c \o x : c \in CoreVersions, x \in ValidSuffixes}

Expanded == call = "expandVersionNumber"

OKWith(ver) == pc = "running" /\ ret = [status |-> ExitStatusOK, ver |-> ver]

\* C1: for every valid three-component version string s, expandVersionNumber(s)
\* and expandVersionNumber("v" + s) both return ("v" + s, ExitStatusOK), and
\* expandVersionNumber("vv" + s) does not return ExitStatusOK.
C1_SameCanonicalForm ==
    /\ Expanded /\ input \in ValidVersions => OKWith(vPrefix \o input)
    /\ Expanded /\ HasPrefixV(input) /\ Tail(input) \in ValidVersions => OKWith(input)
    /\ Expanded /\ HasPrefixV(input) /\ HasPrefixV(Tail(input))
       /\ Tail(Tail(input)) \in ValidVersions =>
           pc = "running" /\ ret.status # ExitStatusOK /\ ret.ver = <<>>

C1_Witness == Expanded /\ input = v123 /\ OKWith(v123) /\ parsed = <<Tail(v123)>>

\* The number of "." in s.
RECURSIVE DotCount(_)
DotCount(s) ==
    IF s = <<>> THEN 0
    ELSE (IF Head(s) = "." THEN 1 ELSE 0) + DotCount(Tail(s))

\* The empty string, a lone "v", text without a digit, fewer than three components.
Malformed(s) ==
    \/ s = <<>>
    \/ s = vPrefix
    \/ \A i \in 1..Len(s) : s[i] \notin numbers
    \/ DotCount(s) < 2

C3_AliasNotYetSupported ==
    Expanded /\ input \in Aliases =>
        /\ parsed = <<>>
        /\ ioerr = <<"not yet supported">>

\* s without its optional leading "v".
Unprefixed(s) == IF HasPrefixV(s) THEN Tail(s) ELSE s

\* s up to its first "-" or "+".
RECURSIVE CoreOf(_)
CoreOf(s) ==
    IF s = <<>> \/ Head(s) \in {"-", "+"} THEN <<>>
    ELSE <<Head(s)>> \o CoreOf(Tail(s))

\* "v<major>.<minor>.<patch>" and nothing else.
IsCanonical(ver) ==
    /\ HasPrefixV(ver)
    /\ Len(Split(Tail(ver))) = 3
    /\ \A i \in 1..3 : IsNumeral(Split(Tail(ver))[i])

\* One of the first three components of s has a leading zero.
LeadingZeroInCore(s) ==
    \E i \in 1..Len(Split(CoreOf(Unprefixed(s)))) :
        i <= 3 /\ hasLeadingZeroes(Split(CoreOf(Unprefixed(s)))[i])

\* C4, as claimed: every version string expandVersionNumber returns with
\* ExitStatusOK is "v<major>.<minor>.<patch>" and nothing else.
C4_CanonicalCoreOnly ==
    Expanded /\ pc = "running" /\ ret.status = ExitStatusOK => IsCanonical(ret.ver)

\* C4, amended: every version string expandVersionNumber returns with
\* ExitStatusOK is "v<major>.<minor>.<patch>", three numeric components without
\* leading zeros, followed by the input's pre-release and build metadata
\* unchanged: it is "v" + the input without its optional leading "v"; and an
\* input with a leading zero in one of the three components is rejected with
\* ExitStatusVersionNotFound.
C4_CanonicalWithMetadata ==
    /\ Expanded /\ pc = "running" /\ ret.status = ExitStatusOK =>
           /\ ret.ver = vPrefix \o Unprefixed(input)
           /\ IsCanonical(CoreOf(ret.ver))
    /\ Expanded /\ LeadingZeroInCore(input) =>
           pc = "running" /\ ret = [status |-> ExitStatusVersionNotFound, ver |-> <<>>]

C4_Witness ==
    /\ Expanded
    /\ input = <<"1", ".", "2", ".", "3", "-", "b", "e", "t", "a", "+", "b", "1">>
    /\ OKWith(vPrefix \o input)

\* The tables of the archive name: OS -> <<platform, ext>>, architecture -> token.
PlatformTable ==
    [linux |-> <<"linux", "tar.gz">>, darwin |-> <<"darwin", "tar.gz">>,
     windows |-> <<"win", "zip">>, solaris |-> <<"sunos", "tar.gz">>]
ArchNames == {<<"386", "x86">>, <<"amd64", "x64">>, <<"arm64", "arm64">>,
              <<"ppc64", "ppc64">>, <<"ppc64le", "ppc64le">>, <<"s390x", "s390x">>}
KnownOS(os) == os \in DOMAIN PlatformTable
KnownArch(arch) == \E p \in ArchNames : p[1] = arch
TableOS(os) == IF KnownOS(os) THEN os ELSE "linux"
TableArch(arch) == IF KnownArch(arch) THEN arch ELSE "amd64"
ArchName(arch) == (CHOOSE p \in ArchNames : p[1] = TableArch(arch))[2]

Installed == call = "Install"

\* C5: for every (version, OS, architecture) nodeBinaryArchiveName returns
\* "node-<version>-<platform>-<arch>.<ext>" by the two tables, an OS outside the
\* table counting as linux and an architecture outside it as amd64;
\* ("v1.2.3", windows, amd64) gives "node-v1.2.3-win-x64.zip".
C5_ArchiveName ==
    Installed =>
        /\ pc = "running"
        /\ ret.status = ExitStatusOK
        /\ ioout = <<"node-" \o Str(input) \o "-" \o PlatformTable[TableOS(GOOS)][1]
                     \o "-" \o ArchName(GOARCH) \o "."
                     \o PlatformTable[TableOS(GOOS)][2]>>
        /\ (input = v123 /\ GOOS = "windows" /\ GOARCH = "amd64" =>
                ioout = <<"node-v1.2.3-win-x64.zip">>)

C5_Witness ==
    /\ Installed
    /\ input = v123 /\ GOOS = "windows" /\ GOARCH = "amd64"
    /\ ioout = <<"node-v1.2.3-win-x64.zip">>

\* C6, as claimed: whatever (version, OS, architecture) yields the archive name
\* of this host and version is this version, this OS and this architecture.
C6_Injective ==
    Installed =>
        \A ver \in Versions, os \in OSes, arch \in Arches :
            nodeBinaryArchiveName(ver, os, arch) = ioout[1] =>
                ver = input /\ os = GOOS /\ arch = GOARCH

\* C6, amended: the archive naming is injective on the version and on the OSes
\* and architectures its tables name; an OS outside the table yields the name
\* of linux and an architecture outside it the name of amd64.
C6_InjectiveOnKnown ==
    Installed =>
        \A ver \in Versions, os \in OSes, arch \in Arches :
            nodeBinaryArchiveName(ver, os, arch) = ioout[1] <=>
                /\ ver = input
                /\ TableOS(os) = TableOS(GOOS)
                /\ TableArch(arch) = TableArch(GOARCH)

C6_Witness ==
    /\ Installed
    /\ GOOS = "freebsd" /\ GOARCH = "arm"
    /\ ioout[1] = nodeBinaryArchiveName(input, "linux", "amd64")

\* C7: for the command line `nvmg install <version>` the specifier RunInstall
\* hands to expandVersionNumber is <version>, and RunInstall reaches Install
\* and returns ExitStatusOK.
C7_SpecifierIsVersion ==
    args \in {<<nvmgWord, installWord, v123>>, <<nvmgWord, installWord, ltsOption, v123>>}
    /\ call \in {"Run", "RunInstall"} =>
        /\ specifier = <<v123>>
        /\ pc = "running"
        /\ "Naming" \in {trace[i] : i \in 1..Len(trace)}
        /\ call = "RunInstall" => ret.status = ExitStatusOK

\* C8: an install that reports success has run Resolving, Naming, Downloading,
\* Extracting and Placing, in that order and once each, and has populated the
\* destination directory.
C8_PipelineStages ==
    call = "RunInstall" /\ pc = "running" /\ ret.status = ExitStatusOK =>
        /\ trace = <<"Resolving", "Naming", "Downloading", "Extracting", "Placing">>
        /\ fs # {}

\* C10: when the subcommand is `install`, Run returns the ErrorStatus that
\* RunInstall returned.
C10_RunReturnsInstallStatus ==
    call = "Run" /\ pc = "running" /\ installRet # <<>> => ret.status = installRet[1]

====
